---- MODULE Spec2Model ----
(***************************************************************************)
(* A model of the i-ching crate: the Line / Reading value types and their  *)
(* codec (core/reading.rs), the Diviner (core/divination.rs) and the two   *)
(* figure constructors of the command line (cli.rs).                       *)
(*                                                                         *)
(* Rust arrays are modelled as functions over 0..NumLines-1 so that the    *)
(* indices of the source are the indices of the model.  Option<T> is a     *)
(* sequence of length at most one (None == <<>>, Some(x) == <<x>>) and      *)
(* Result<T, E> is a record with an "ok" flag.                             *)
(***************************************************************************)
EXTENDS Integers, Sequences, FiniteSets

VARIABLES
    pc,           \* position of the run: which call has returned
    route,        \* the operation that produced `result`
    input,        \* the arguments of that operation
    coins,        \* the three gen_bool draws of the latest cast_line
    cast,         \* the lines cast so far by cast_reading (bottom first)
    result,       \* the value the operation returned
    transformed,  \* reading.transformed_hexagram() of the resolved reading
    again         \* transformed_hexagram() of the transformed reading

vars == <<pc, route, input, coins, cast, result, transformed, again>>

----------------------------------------------------------------------------
(* Bounds and program constants *)

\* a Reading holds [Line; 6]
NumLines == 6

\* line codes tried as input of cast_reading_from_numbers: 5..MaxCode
MaxCode == 10

Positions == 0..(NumLines - 1)
CodeInputs == 5..MaxCode
U8 == 0..255
HexagramNumbers == 1..64

----------------------------------------------------------------------------
(* Option and Result *)

None == <<>>
Some(x) == <<x>>
Ok(x) == [ok |-> TRUE, val |-> x]
Err(e) == [ok |-> FALSE, err |-> e]

----------------------------------------------------------------------------
(* core/reading.rs: Line *)

Ages == {"Young", "Old"}
Polarities == {"Yang", "Yin"}

Line_new(age, polarity) == [age |-> age, polarity |-> polarity]

AllLines == {Line_new(a, p) : a \in Ages, p \in Polarities}

traditional_number_swapped(line) ==
    IF line.age = "Old"
    THEN (IF line.polarity = "Yin" THEN 6 ELSE 9)
    ELSE (IF line.polarity = "Yang" THEN 8 ELSE 7)

traditional_number(line) ==
    CASE line.age = "Old" /\ line.polarity = "Yin" -> 6
      [] line.age = "Young" /\ line.polarity = "Yang" -> 7
      [] line.age = "Young" /\ line.polarity = "Yin" -> 8
      [] line.age = "Old" /\ line.polarity = "Yang" -> 9

InvalidLineNumber(num) == [msg |-> "Invalid line number", value |-> num]

from_traditional_number_lenient(num) ==
    CASE num = 6 -> Ok(Line_new("Old", "Yin"))
      [] num = 7 -> Ok(Line_new("Young", "Yang"))
      [] num = 8 -> Ok(Line_new("Young", "Yin"))
      [] num = 9 -> Ok(Line_new("Old", "Yang"))
      [] OTHER -> Ok(Line_new("Young", "Yin"))

from_traditional_number(num) ==
    CASE num = 6 -> Ok(Line_new("Old", "Yin"))
      [] num = 7 -> Ok(Line_new("Young", "Yang"))
      [] num = 8 -> Ok(Line_new("Young", "Yin"))
      [] num = 9 -> Ok(Line_new("Old", "Yang"))
      [] OTHER -> Err(InvalidLineNumber(num))

transform_keeps_polarity(line) ==
    IF line.age = "Old" THEN Line_new("Young", line.polarity) ELSE line

transform_keeps_age(line) ==
    IF line.age = "Old"
    THEN Line_new("Old", IF line.polarity = "Yang" THEN "Yin" ELSE "Yang")
    ELSE line

transform(line) ==
    IF line.age = "Old"
    THEN Line_new("Young", IF line.polarity = "Yang" THEN "Yin" ELSE "Yang")
    ELSE line

----------------------------------------------------------------------------
(* core/reading.rs: Reading *)

NoQuestion == None

Reading_new(lines, question) == [lines |-> lines, question |-> question]

polarity_weight_reversed(lines, i) ==
    IF lines[i].polarity = "Yang" THEN 2 ^ (NumLines - 1 - i) ELSE 0

\* the value the closure of primary_hexagram adds for the line at index i
polarity_weight(lines, i) ==
    IF lines[i].polarity = "Yang" THEN 2 ^ i ELSE 0

\* the fold of primary_hexagram, from index i on, in unbounded integers
RECURSIVE fold_polarity(_, _, _)
fold_polarity(lines, i, acc) ==
    IF i = NumLines THEN acc
    ELSE fold_polarity(lines, i + 1, acc + polarity_weight(lines, i))

\* TRUE when a u8 addition of primary_hexagram leaves 0..255
RECURSIVE fold_overflows(_, _, _)
fold_overflows(lines, i, acc) ==
    IF i = NumLines THEN acc + 1 > 255
    ELSE \/ acc + polarity_weight(lines, i) > 255
         \/ fold_overflows(lines, i + 1, acc + polarity_weight(lines, i))

primary_hexagram_overflows(reading) == fold_overflows(reading.lines, 0, 0)

primary_hexagram_no_offset(reading) ==
    fold_polarity(reading.lines, 0, 0) % 256

primary_hexagram(reading) ==
    (fold_polarity(reading.lines, 0, 0) + 1) % 256

has_changing_lines(reading) ==
    \E i \in Positions : reading.lines[i].age = "Old"

RECURSIVE old_positions_zero_based(_, _)
old_positions_zero_based(lines, i) ==
    IF i = NumLines THEN <<>>
    ELSE (IF lines[i].age = "Old" THEN <<i>> ELSE <<>>)
         \o old_positions_zero_based(lines, i + 1)

changing_line_positions_zero_based(reading) ==
    old_positions_zero_based(reading.lines, 0)

\* enumerate().filter(age == Old).map(i + 1).collect(), from index i on
RECURSIVE old_positions(_, _)
old_positions(lines, i) ==
    IF i = NumLines THEN <<>>
    ELSE (IF lines[i].age = "Old" THEN <<i + 1>> ELSE <<>>)
         \o old_positions(lines, i + 1)

changing_line_positions(reading) == old_positions(reading.lines, 0)

transformed_hexagram_total(reading) ==
    Some(Reading_new([i \in Positions |-> transform(reading.lines[i])],
                     reading.question))

transformed_hexagram(reading) ==
    IF ~has_changing_lines(reading) THEN None
    ELSE Some(Reading_new([i \in Positions |-> transform(reading.lines[i])],
                          reading.question))

traditional_numbers(reading) ==
    [i \in Positions |-> traditional_number(reading.lines[i])]

----------------------------------------------------------------------------
(* core/divination.rs: Diviner *)

Draws == 0..2
CoinTosses == [Draws -> BOOLEAN]

InvalidLinePanic(number) == [ok |-> FALSE, panic |-> "Invalid line number", value |-> number]

\* a panic is a result with ok = FALSE and a "panic" field
number_to_line(number) ==
    CASE number = 6 -> Ok(Line_new("Old", "Yin"))
      [] number = 7 -> Ok(Line_new("Young", "Yang"))
      [] number = 8 -> Ok(Line_new("Young", "Yin"))
      [] number = 9 -> Ok(Line_new("Old", "Yang"))
      [] OTHER -> InvalidLinePanic(number)

coin_value_biased(heads) == IF heads THEN 3 ELSE 3

coin_value_heavy(heads) == IF heads THEN 4 ELSE 2

\* if self.rng.gen_bool(0.5) { 3 } else { 2 }
coin_value(heads) == IF heads THEN 3 ELSE 2

\* (0..3).map(..).sum() as u8, for the three draws in `tosses`
RECURSIVE sum_coins(_, _)
sum_coins(tosses, k) ==
    IF k = 3 THEN 0
    ELSE (coin_value(tosses[k]) + sum_coins(tosses, k + 1)) % 256

coin_sum(tosses) == sum_coins(tosses, 0)

cast_line(tosses) == number_to_line(coin_sum(tosses))

\* the loop of cast_reading_from_numbers from index i on; `?` returns the
\* error of the first failing from_traditional_number
RECURSIVE from_numbers_loop(_, _, _)
from_numbers_loop(numbers, i, lines) ==
    IF i = NumLines THEN Ok(lines)
    ELSE LET r == from_traditional_number(numbers[i])
         IN  IF r.ok
             THEN from_numbers_loop(numbers, i + 1, [lines EXCEPT ![i] = r.val])
             ELSE r

RECURSIVE from_numbers_loop_last(_, _, _, _)
from_numbers_loop_last(numbers, i, lines, failed) ==
    IF i = NumLines
    THEN (IF failed = None THEN Ok(lines) ELSE failed[1])
    ELSE LET r == from_traditional_number(numbers[i])
         IN  IF r.ok
             THEN from_numbers_loop_last(numbers, i + 1,
                                         [lines EXCEPT ![i] = r.val], failed)
             ELSE from_numbers_loop_last(numbers, i + 1, lines, Some(r))

cast_reading_from_numbers_last_error(numbers, question) ==
    LET r == from_numbers_loop_last(numbers, 0,
                 [i \in Positions |-> Line_new("Young", "Yang")], None)
    IN  IF r.ok THEN Ok(Reading_new(r.val, question)) ELSE r

cast_reading_from_numbers(numbers, question) ==
    LET r == from_numbers_loop(numbers, 0,
                 [i \in Positions |-> Line_new("Young", "Yang")])
    IN  IF r.ok THEN Ok(Reading_new(r.val, question)) ELSE r

----------------------------------------------------------------------------
(* cli.rs: figures from identifiers *)

\* (value >> i) & 1 on a u8
bit(value, i) == (value \div (2 ^ i)) % 2

u8_sub_saturating(a, b) == IF a < b THEN 0 ELSE a - b

\* u8 subtraction, wrapping
u8_sub(a, b) == (a - b) % 256

bit_polarity(b) == IF b = 1 THEN "Yang" ELSE "Yin"

create_reading_no_decrement(hexagram_number) ==
    LET binary_value == hexagram_number
    IN  Ok(Reading_new(
            [i \in Positions |-> Line_new("Young", bit_polarity(bit(binary_value, i)))],
            NoQuestion))

create_reading_from_hexagram_number(hexagram_number) ==
    LET binary_value == u8_sub(hexagram_number, 1)
    IN  Ok(Reading_new(
            [i \in Positions |-> Line_new("Young", bit_polarity(bit(binary_value, i)))],
            NoQuestion))

changing_line_target_polarity(from_binary, to_binary, i) ==
    LET from_polarity == bit_polarity(bit(from_binary, i))
        to_polarity == bit_polarity(bit(to_binary, i))
    IN  IF from_polarity # to_polarity
        THEN Line_new("Old", to_polarity)
        ELSE Line_new("Young", from_polarity)

changing_line_inverted_age(from_binary, to_binary, i) ==
    LET from_polarity == bit_polarity(bit(from_binary, i))
        to_polarity == bit_polarity(bit(to_binary, i))
    IN  IF from_polarity # to_polarity
        THEN Line_new("Young", from_polarity)
        ELSE Line_new("Old", from_polarity)

\* the body of the loop of create_changing_reading_from_numbers
changing_line(from_binary, to_binary, i) ==
    LET from_polarity == bit_polarity(bit(from_binary, i))
        to_polarity == bit_polarity(bit(to_binary, i))
    IN  IF from_polarity # to_polarity
        THEN Line_new("Old", from_polarity)
        ELSE Line_new("Young", from_polarity)

InternalError(msg, got, expected) ==
    [msg |-> msg, got |-> got, expected |-> expected]

create_changing_reading_from_numbers(from_hexagram, to_hexagram) ==
    LET from_binary == u8_sub(from_hexagram, 1)
        to_binary == u8_sub(to_hexagram, 1)
        reading == Reading_new(
            [i \in Positions |-> changing_line(from_binary, to_binary, i)],
            NoQuestion)
        t == transformed_hexagram(reading)
    IN  IF primary_hexagram(reading) # from_hexagram
        THEN Err(InternalError("Internal error: created reading has hexagram",
                               primary_hexagram(reading), from_hexagram))
        ELSE IF t # None
        THEN (IF primary_hexagram(t[1]) # to_hexagram
              THEN Err(InternalError("Internal error: transformed reading has hexagram",
                                     primary_hexagram(t[1]), to_hexagram))
              ELSE Ok(reading))
        ELSE IF from_hexagram # to_hexagram
        THEN Err(InternalError("Internal error: reading should have changing lines",
                               from_hexagram, to_hexagram))
        ELSE Ok(reading)

----------------------------------------------------------------------------
(* The run: one constructor resolves a reading, which is then transformed *)

Init ==
    /\ pc = "start"
    /\ route = "none"
    /\ input = <<>>
    /\ coins = <<>>
    /\ cast = <<>>
    /\ result = <<>>
    /\ transformed = None
    /\ again = None

\* Line::from_traditional_number(num)
FromTraditionalNumber ==
    /\ pc = "start"
    /\ \E num \in U8 :
        /\ input' = num
        /\ result' = from_traditional_number(num)
    /\ route' = "from_traditional_number"
    /\ pc' = "line"
    /\ UNCHANGED <<coins, cast, transformed, again>>

\* one cast_line() of Diviner::cast_reading(None); the sixth builds the Reading
CastLine ==
    /\ pc \in {"start", "casting"}
    /\ Len(cast) < NumLines
    /\ \E tosses \in CoinTosses :
        LET line == cast_line(tosses)
            lines == Append(cast, line.val)
        IN  /\ coins' = tosses
            /\ IF ~line.ok
               THEN /\ pc' = "panicked"
                    /\ result' = line
                    /\ cast' = cast
               ELSE /\ cast' = lines
                    /\ IF Len(lines) = NumLines
                       THEN /\ pc' = "resolved"
                            /\ result' = Ok(Reading_new(
                                   [i \in Positions |-> lines[i + 1]], NoQuestion))
                       ELSE /\ pc' = "casting"
                            /\ result' = result
    /\ route' = "cast_reading"
    /\ UNCHANGED <<input, transformed, again>>

\* Diviner::cast_reading_from_numbers(numbers, None)
CastReadingFromNumbers ==
    /\ pc = "start"
    /\ \E numbers \in [Positions -> CodeInputs] :
        /\ input' = numbers
        /\ result' = cast_reading_from_numbers(numbers, NoQuestion)
        /\ pc' = IF result'.ok THEN "resolved" ELSE "failed"
    /\ route' = "cast_reading_from_numbers"
    /\ UNCHANGED <<coins, cast, transformed, again>>

\* create_reading_from_hexagram_number(n), as parse_input_and_create_reading calls it
CreateReadingFromHexagramNumber ==
    /\ pc = "start"
    /\ \E n \in HexagramNumbers :
        /\ input' = n
        /\ result' = create_reading_from_hexagram_number(n)
        /\ pc' = IF result'.ok THEN "resolved" ELSE "failed"
    /\ route' = "create_reading_from_hexagram_number"
    /\ UNCHANGED <<coins, cast, transformed, again>>

\* create_changing_reading_from_numbers(s, t), as try_parse_changing_hexagram calls it
CreateChangingReadingFromNumbers ==
    /\ pc = "start"
    /\ \E s \in HexagramNumbers, t \in HexagramNumbers :
        /\ input' = <<s, t>>
        /\ result' = create_changing_reading_from_numbers(s, t)
        /\ pc' = IF result'.ok THEN "resolved" ELSE "failed"
    /\ route' = "create_changing_reading_from_numbers"
    /\ UNCHANGED <<coins, cast, transformed, again>>

\* reading.transformed_hexagram() on the resolved reading
TransformedHexagram ==
    /\ pc = "resolved"
    /\ transformed' = transformed_hexagram(result.val)
    /\ pc' = "transformed"
    /\ UNCHANGED <<route, input, coins, cast, result, again>>

\* transformed.transformed_hexagram() on the reading the first call returned
TransformedAgain ==
    /\ pc = "transformed"
    /\ transformed # None
    /\ again' = transformed_hexagram(transformed[1])
    /\ pc' = "retransformed"
    /\ UNCHANGED <<route, input, coins, cast, result, transformed>>

Next ==
    \/ FromTraditionalNumber
    \/ CastLine
    \/ CastReadingFromNumbers
    \/ CreateReadingFromHexagramNumber
    \/ CreateChangingReadingFromNumbers
    \/ TransformedHexagram
    \/ TransformedAgain

Spec == Init /\ [][Next]_vars

----------------------------------------------------------------------------
(* Vocabulary of the properties *)

\* a Rust array literal: the function over 0..Len-1 with the elements of seq
Arr(seq) == [i \in 0..(Len(seq) - 1) |-> seq[i + 1]]

\* a constructor has returned Ok(reading)
HasReading == pc \in {"resolved", "transformed", "retransformed"}

\* transformed_hexagram() has been called on the resolved reading
WasTransformed == pc \in {"transformed", "retransformed"}

YangPositions(reading) == {i \in Positions : reading.lines[i].polarity = "Yang"}
OldPositions(reading) == {i \in Positions : reading.lines[i].age = "Old"}

RECURSIVE SumOfPowers(_)
SumOfPowers(S) ==
    IF S = {} THEN 0
    ELSE LET i == CHOOSE x \in S : TRUE IN 2 ^ i + SumOfPowers(S \ {i})

Opposite(polarity) == IF polarity = "Yang" THEN "Yin" ELSE "Yang"

AllYoung(reading) == \A i \in Positions : reading.lines[i].age = "Young"

\* the reading with the polarities of `reading` and every line Young
Youthful(reading) ==
    [reading EXCEPT !.lines = [i \in Positions |-> Line_new("Young", reading.lines[i].polarity)]]

Heads(tosses) == Cardinality({k \in Draws : tosses[k]})

----------------------------------------------------------------------------
(* C1 *)

\* C1: for every source S and target T in 1..64,
\* create_changing_reading_from_numbers(S, T) returns Ok (no internal
\* consistency error) with a reading whose identifier is S; if S # T the
\* reading has changing lines and its transformed reading has identifier T;
\* if S = T it has no changing lines.
C1_TransitionReconciliation ==
    route = "create_changing_reading_from_numbers" =>
        LET s == input[1]
            t == input[2]
        IN  /\ result.ok
            /\ pc # "failed"
            /\ primary_hexagram(result.val) = s
            /\ (s # t =>
                  /\ has_changing_lines(result.val)
                  /\ transformed_hexagram(result.val) # None
                  /\ primary_hexagram(transformed_hexagram(result.val)[1]) = t)
            /\ (s = t => ~has_changing_lines(result.val))
            /\ (WasTransformed /\ s # t =>
                  transformed # None /\ primary_hexagram(transformed[1]) = t)

C1_Witness ==
    /\ route = "create_changing_reading_from_numbers"
    /\ input = <<32, 34>>
    /\ pc = "transformed"
    /\ result.ok
    /\ primary_hexagram(result.val) = 32
    /\ transformed # None
    /\ primary_hexagram(transformed[1]) = 34

----------------------------------------------------------------------------
(* C2 *)

\* C2: for every id in 1..64, create_reading_from_hexagram_number(id) gives a
\* reading whose six lines are Young, whose line i is Yang exactly when bit i
\* of id - 1 is set, and whose primary_hexagram() is id.
C2_IdentifierRoundTrip ==
    route = "create_reading_from_hexagram_number" =>
        /\ result.ok
        /\ \A i \in Positions :
            /\ result.val.lines[i].age = "Young"
            /\ (result.val.lines[i].polarity = "Yang")
                  <=> (((input - 1) \div (2 ^ i)) % 2 = 1)
        /\ primary_hexagram(result.val) = input

C2_Witness ==
    /\ route = "create_reading_from_hexagram_number"
    /\ input = 22
    /\ result.ok
    /\ traditional_numbers(result.val) = Arr(<<7, 8, 7, 8, 7, 8>>)
    /\ primary_hexagram(result.val) = 22

----------------------------------------------------------------------------
(* C3 *)

\* C3: for every reading, primary_hexagram() is 1 plus the sum of 2^i over the
\* positions i whose polarity is Yang; it lies in 1..64, is the same for the
\* reading with the same polarities and other ages, and no u8 addition of the
\* fold overflows (all Yang gives 64, codes [7,8,9,6,7,8] give 22).
C3_IdentifierFormula ==
    HasReading =>
        LET r == result.val
        IN  /\ primary_hexagram(r) = 1 + SumOfPowers(YangPositions(r))
            /\ primary_hexagram(r) \in 1..64
            /\ ~primary_hexagram_overflows(r)
            /\ primary_hexagram(Youthful(r)) = primary_hexagram(r)
            /\ (YangPositions(r) = Positions => primary_hexagram(r) = 64)
            /\ (traditional_numbers(r) = Arr(<<7, 8, 9, 6, 7, 8>>)
                  => primary_hexagram(r) = 22)

C3_Witness ==
    /\ route = "cast_reading_from_numbers"
    /\ HasReading
    /\ traditional_numbers(result.val) = Arr(<<7, 8, 9, 6, 7, 8>>)
    /\ primary_hexagram(result.val) = 22

----------------------------------------------------------------------------
(* C4 *)

\* C4: from_traditional_number and traditional_number are mutually inverse
\* between {6,7,8,9} and the four lines, with 6 = Old Yin, 7 = Young Yang,
\* 8 = Young Yin, 9 = Old Yang.
C4_LineCodeRoundTrip ==
    /\ (route = "from_traditional_number" /\ input \in 6..9 =>
          /\ result.ok
          /\ traditional_number(result.val) = input
          /\ (input = 6 => result.val = Line_new("Old", "Yin"))
          /\ (input = 7 => result.val = Line_new("Young", "Yang"))
          /\ (input = 8 => result.val = Line_new("Young", "Yin"))
          /\ (input = 9 => result.val = Line_new("Old", "Yang")))
    /\ (HasReading =>
          \A i \in Positions :
            LET line == result.val.lines[i]
            IN  /\ traditional_number(line) \in 6..9
                /\ from_traditional_number(traditional_number(line)) = Ok(line)
                /\ (traditional_number(line) = 6) <=> (line = Line_new("Old", "Yin"))
                /\ (traditional_number(line) = 7) <=> (line = Line_new("Young", "Yang"))
                /\ (traditional_number(line) = 8) <=> (line = Line_new("Young", "Yin"))
                /\ (traditional_number(line) = 9) <=> (line = Line_new("Old", "Yang")))

C4_Witness ==
    /\ route = "from_traditional_number"
    /\ input = 9
    /\ result = Ok(Line_new("Old", "Yang"))
    /\ traditional_number(result.val) = 9

----------------------------------------------------------------------------
(* C5 *)

\* C5: a transformed reading is the input transformed position by position:
\* an Old line becomes the Young line of the opposite polarity, a Young line
\* stays exactly as it is.
C5_TransformRule ==
    /\ (HasReading =>
          \A i \in Positions :
            LET line == result.val.lines[i]
            IN  /\ (line.age = "Old" =>
                      transform(line) = Line_new("Young", Opposite(line.polarity)))
                /\ (line.age = "Young" => transform(line) = line))
    /\ (WasTransformed /\ transformed # None =>
          \A i \in Positions :
            LET line == result.val.lines[i]
                after == transformed[1].lines[i]
            IN  /\ (line.age = "Old" =>
                      after = Line_new("Young", Opposite(line.polarity)))
                /\ (line.age = "Young" => after = line))

C5_Witness ==
    /\ pc = "transformed"
    /\ traditional_numbers(result.val) = Arr(<<7, 8, 9, 6, 7, 8>>)
    /\ transformed # None
    /\ traditional_numbers(transformed[1]) = Arr(<<7, 8, 8, 7, 7, 8>>)

----------------------------------------------------------------------------
(* C6 *)

\* C6: changing_line_positions() lists exactly the i + 1 of the Old lines, in
\* strictly ascending order, within 1..6, and has_changing_lines() holds
\* exactly when the list is not empty (codes [7,8,9,6,7,8] give [3,4], codes
\* [6,7,8,9,6,8] give [1,4,5]).
C6_ChangingPositions ==
    HasReading =>
        LET r == result.val
            p == changing_line_positions(r)
        IN  /\ {p[k] : k \in 1..Len(p)} = {i + 1 : i \in OldPositions(r)}
            /\ \A k \in 1..Len(p) : p[k] \in 1..6
            /\ \A k \in 1..(Len(p) - 1) : p[k] < p[k + 1]
            /\ has_changing_lines(r) <=> (Len(p) > 0)
            /\ (traditional_numbers(r) = Arr(<<7, 8, 9, 6, 7, 8>>) => p = <<3, 4>>)
            /\ (traditional_numbers(r) = Arr(<<6, 7, 8, 9, 6, 8>>) => p = <<1, 4, 5>>)

C6_Witness ==
    /\ HasReading
    /\ traditional_numbers(result.val) = Arr(<<6, 7, 8, 9, 6, 8>>)
    /\ changing_line_positions(result.val) = <<1, 4, 5>>
    /\ has_changing_lines(result.val)

----------------------------------------------------------------------------
(* C7 *)

\* C7 as claimed: transformed_hexagram() returns a reading for every reading,
\* and for a reading without changing lines that reading is the input.
C7_TransformTotal ==
    WasTransformed =>
        /\ transformed # None
        /\ (~has_changing_lines(result.val) => transformed = Some(result.val))

\* C7, amended: transformed_hexagram() returns a reading exactly when the
\* input has a changing line; for an input without changing lines it returns
\* None, and the line by line transform of such an input is the input.
C7_TransformOnlyWhenChanging ==
    WasTransformed =>
        /\ (transformed # None) <=> has_changing_lines(result.val)
        /\ (~has_changing_lines(result.val) =>
              /\ transformed = None
              /\ \A i \in Positions :
                    transform(result.val.lines[i]) = result.val.lines[i])

C7_Witness ==
    /\ pc = "transformed"
    /\ AllYoung(result.val)
    /\ ~has_changing_lines(result.val)
    /\ transformed = None

----------------------------------------------------------------------------
(* C8 *)

\* C8 as claimed: for every reading f, transform(f) is a reading whose lines
\* are all Young, and so is transform(transform(f)): their changing positions
\* are empty and has_changing_lines is false on them.
C8_TransformedNeverChanging ==
    /\ (WasTransformed =>
          /\ transformed # None
          /\ AllYoung(transformed[1])
          /\ changing_line_positions(transformed[1]) = <<>>
          /\ ~has_changing_lines(transformed[1]))
    /\ (pc = "retransformed" =>
          /\ again # None
          /\ changing_line_positions(again[1]) = <<>>
          /\ ~has_changing_lines(again[1]))

\* C8, amended: for every reading f with a changing line, every line of
\* transform(f) is Young, so its changing positions are empty and
\* has_changing_lines is false on it; transformed_hexagram() of transform(f)
\* is therefore None.
C8_TransformedAllYoung ==
    /\ (WasTransformed /\ has_changing_lines(result.val) =>
          /\ transformed # None
          /\ AllYoung(transformed[1])
          /\ changing_line_positions(transformed[1]) = <<>>
          /\ ~has_changing_lines(transformed[1]))
    /\ (pc = "retransformed" => again = None)

C8_Witness ==
    /\ pc = "retransformed"
    /\ has_changing_lines(result.val)
    /\ transformed # None
    /\ AllYoung(transformed[1])
    /\ again = None

----------------------------------------------------------------------------
(* C9 *)

TossesSumming(n) == {t \in CoinTosses : coin_sum(t) = n}
TossesCasting(line) == {t \in CoinTosses : cast_line(t) = Ok(line)}

\* C9: of the 8 equally likely outcomes of the three draws of cast_line, each
\* worth 2 or 3, one sums to 6, three to 7, three to 8 and one to 9, so that
\* Old Yin and Old Yang have 1 outcome in 8 each and Young Yang and Young Yin
\* 3 in 8 each; a line cast has the code 6 plus the number of draws worth 3.
C9_CastingDistribution ==
    /\ Cardinality(CoinTosses) = 8
    /\ \A t \in CoinTosses : \A k \in Draws : coin_value(t[k]) \in {2, 3}
    /\ Cardinality(TossesSumming(6)) = 1
    /\ Cardinality(TossesSumming(7)) = 3
    /\ Cardinality(TossesSumming(8)) = 3
    /\ Cardinality(TossesSumming(9)) = 1
    /\ Cardinality(TossesCasting(Line_new("Old", "Yin"))) = 1
    /\ Cardinality(TossesCasting(Line_new("Young", "Yang"))) = 3
    /\ Cardinality(TossesCasting(Line_new("Young", "Yin"))) = 3
    /\ Cardinality(TossesCasting(Line_new("Old", "Yang"))) = 1
    /\ (route = "cast_reading" =>
          /\ pc # "panicked"
          /\ Len(cast) > 0
          /\ traditional_number(cast[Len(cast)]) = 6 + Heads(coins))

C9_Witness ==
    /\ route = "cast_reading"
    /\ pc = "casting"
    /\ Heads(coins) = 1
    /\ coin_sum(coins) = 7
    /\ cast[Len(cast)] = Line_new("Young", "Yang")

----------------------------------------------------------------------------
(* C10 *)

InvalidPositions(numbers) == {i \in Positions : numbers[i] \notin 6..9}
FirstInvalid(numbers) ==
    CHOOSE i \in InvalidPositions(numbers) :
        \A j \in InvalidPositions(numbers) : i <= j

\* C10: from_traditional_number returns an error for every u8 outside
\* {6,7,8,9}; cast_reading_from_numbers on six codes of which one at least is
\* invalid returns the error of the invalid code of lowest index, and no
\* reading.
C10_InvalidLineCodes ==
    /\ (route = "from_traditional_number" /\ input \notin 6..9 =>
          /\ ~result.ok
          /\ result = Err(InvalidLineNumber(input)))
    /\ (route = "cast_reading_from_numbers"
            /\ InvalidPositions(input) # {} =>
          /\ ~result.ok
          /\ pc = "failed"
          /\ result = Err(InvalidLineNumber(input[FirstInvalid(input)])))

C10_Witness ==
    /\ route = "cast_reading_from_numbers"
    /\ input = Arr(<<7, 8, 5, 6, 10, 8>>)
    /\ pc = "failed"
    /\ result = Err(InvalidLineNumber(5))

----------------------------------------------------------------------------
(* Text: a &str is the sequence of the code points of its chars *)

\* the chars the source names: ' ', '+', ',', '-', '>', 'x', the Unicode
\* arrow U+2192 of `separators`, and U+4DC0, the first hexagram glyph
Char == [space |-> 32, plus |-> 43, comma |-> 44, minus |-> 45, gt |-> 62,
         zero |-> 48, x |-> 120, arrow |-> 8594, hexagram |-> 19904]

\* char::is_whitespace, as str::trim uses it
is_whitespace(c) ==
    \/ c \in 9..13
    \/ c \in {32, 133, 160, 5760, 8232, 8233, 8239, 8287, 12288}
    \/ c \in 8192..8202

\* str::trim
RECURSIVE trim_start(_)
trim_start(s) ==
    IF s # <<>> /\ is_whitespace(s[1]) THEN trim_start(Tail(s)) ELSE s

RECURSIVE trim_end(_)
trim_end(s) ==
    IF s # <<>> /\ is_whitespace(s[Len(s)])
    THEN trim_end(SubSeq(s, 1, Len(s) - 1))
    ELSE s

no_trim(s) == s

trim(s) == trim_end(trim_start(s))

\* the pattern pat occurs in s at the 0-based offset p
occurs_at(s, pat, p) ==
    /\ p + Len(pat) <= Len(s)
    /\ SubSeq(s, p + 1, p + Len(pat)) = pat

\* str::find: the offset of the first occurrence
find(s, pat) ==
    LET hits == {p \in 0..Len(s) : occurs_at(s, pat, p)}
    IN  IF hits = {} THEN None
        ELSE Some(CHOOSE p \in hits : \A q \in hits : p <= q)

contains(s, c) == \E k \in 1..Len(s) : s[k] = c

\* str::split_at(mid)
split_at(s, mid) == <<SubSeq(s, 1, mid), SubSeq(s, mid + 1, Len(s))>>

\* str::split(c): the parts between the occurrences of c, empty ones included
RECURSIVE split(_, _)
split(s, c) ==
    IF ~contains(s, c) THEN <<s>>
    ELSE LET k == CHOOSE j \in 1..Len(s) :
                      s[j] = c /\ \A h \in 1..(j - 1) : s[h] # c
         IN  <<SubSeq(s, 1, k - 1)>> \o split(SubSeq(s, k + 1, Len(s)), c)

is_digit(c) == c \in 48..57

\* the digits of s from index k on, accumulated into a u8 with checked
\* arithmetic
RECURSIVE parse_digits(_, _, _)
parse_digits(s, k, acc) ==
    IF k > Len(s) THEN Ok(acc)
    ELSE IF ~is_digit(s[k]) THEN Err("InvalidDigit")
    ELSE IF acc * 10 + (s[k] - 48) > 255 THEN Err("PosOverflow")
    ELSE parse_digits(s, k + 1, acc * 10 + (s[k] - 48))

\* str::parse::<u8>(): digits after an optional '+', no sign alone, no
\* whitespace, at most 255
parse_u8(s) ==
    IF s = <<>> THEN Err("Empty")
    ELSE IF s[1] = Char.plus
    THEN (IF Len(s) = 1 THEN Err("InvalidDigit") ELSE parse_digits(s, 2, 0))
    ELSE parse_digits(s, 1, 0)

----------------------------------------------------------------------------
(* core/data.rs: the reference data (data/hexagrams.json), as far as the    *)
(* interpreter and the formats read it: which records exist, and each       *)
(* record's number and unicode field.                                       *)

\* the record of hexagram i: its glyph is the i-th char of the block U+4DC0..
\* the texts of a record stand for themselves: Text("name", i) is the name of
\* hexagram i
Text(field, i) == [field |-> field, of |-> i]

LineInterpretation(i, position) ==
    [text |-> [field |-> "line text", of |-> i, line |-> position],
     comments |-> [field |-> "line comments", of |-> i, line |-> position]]

HexagramRecord(i) ==
    [number |-> i,
     name |-> Text("name", i),
     chinese |-> Text("chinese", i),
     pinyin |-> Text("pinyin", i),
     unicode |-> <<Char.hexagram + i - 1>>,
     description |-> Text("description", i),
     judgment |-> [text |-> Text("judgment text", i),
                   commentary |-> Text("judgment commentary", i)],
     image |-> [text |-> Text("image text", i),
                commentary |-> Text("image commentary", i)],
     lines |-> [position \in 1..6 |-> LineInterpretation(i, position)]]

\* IChingData::load() of a data file that lacks the records of `missing`
IChingData_load(missing) ==
    [i \in HexagramNumbers \ missing |-> HexagramRecord(i)]

\* a data file whose record `number` has the digit d as its glyph field
DigitGlyphData(number, d) ==
    [i \in HexagramNumbers |->
        IF i = number
        THEN [HexagramRecord(i) EXCEPT !.unicode = <<Char.zero + d>>]
        ELSE HexagramRecord(i)]

\* the error of IChingData::load() when neither the embedded data nor a data
\* directory can be read
LoadFailure == Err([msg |-> "Could not find data directory"])

\* the error the callers of IChingData::load() make of its error (map_err)
LoadError == Err([msg |-> "Failed to load I Ching data"])

get_hexagram(data, number) ==
    IF number \in DOMAIN data THEN Some(data[number]) ELSE None

get_line_interpretation(data, hexagram_number, line_position) ==
    LET hexagram == get_hexagram(data, hexagram_number)
    IN  IF hexagram = None THEN None
        ELSE IF line_position \in DOMAIN hexagram[1].lines
        THEN Some(hexagram[1].lines[line_position])
        ELSE None

\* the scan without the early return: the last matching record wins
scan_hexagrams_last(data, unicode_char, i) ==
    LET matching == {j \in i..64 : /\ get_hexagram(data, j) # None
                                   /\ get_hexagram(data, j)[1].unicode # <<>>
                                   /\ get_hexagram(data, j)[1].unicode[1] = unicode_char}
    IN  IF matching = {} THEN None
        ELSE Some(CHOOSE j \in matching : \A k \in matching : k <= j)

\* the scan of unicode_to_hexagram_number from i on
RECURSIVE scan_hexagrams(_, _, _)
scan_hexagrams(data, unicode_char, i) ==
    IF i > 64 THEN None
    ELSE LET hexagram == get_hexagram(data, i)
         IN  IF /\ hexagram # None
                /\ hexagram[1].unicode # <<>>
                /\ hexagram[1].unicode[1] = unicode_char
             THEN Some(i)
             ELSE scan_hexagrams(data, unicode_char, i + 1)

\* `load` is what IChingData::load() returns in this run: Ok(data) or its error
unicode_to_hexagram_number(load, unicode_char) ==
    IF ~load.ok THEN LoadError
    ELSE Ok(scan_hexagrams(load.val, unicode_char, 1))

----------------------------------------------------------------------------
(* cli.rs: the interpreter of the input text (`text` is the `input` of the source) *)

\* a panic of the thread: a failed result with a "panic" field
Panic(msg) == [ok |-> FALSE, panic |-> msg]

\* `hexagram_number - 1` on a u8 panics when the build checks overflow (debug)
\* and wraps when it does not (release)
create_reading_from_hexagram_number_build(hexagram_number, overflow_checks) ==
    IF overflow_checks /\ hexagram_number < 1
    THEN Panic("attempt to subtract with overflow")
    ELSE create_reading_from_hexagram_number(hexagram_number)

create_changing_reading_from_numbers_build(from_hexagram, to_hexagram, overflow_checks) ==
    IF overflow_checks /\ (from_hexagram < 1 \/ to_hexagram < 1)
    THEN Panic("attempt to subtract with overflow")
    ELSE create_changing_reading_from_numbers(from_hexagram, to_hexagram)

SeparatorsUnicodeOnly == << <<Char.arrow>> >>

\* let separators = ["→", "->"]
Separators == << <<Char.arrow>>, <<Char.minus, Char.gt>> >>

both_in_range_from_only(from_num, to_num) ==
    from_num >= 1 /\ from_num <= 64

\* from_num >= 1 && from_num <= 64 && to_num >= 1 && to_num <= 64
both_in_range(from_num, to_num) ==
    from_num >= 1 /\ from_num <= 64 /\ to_num >= 1 /\ to_num <= 64

\* Ok(Some(create_changing_reading_from_numbers(from, to)?))
some_changing_reading(from_num, to_num, overflow_checks) ==
    LET r == create_changing_reading_from_numbers_build(from_num, to_num,
                                                        overflow_checks)
    IN  IF r.ok THEN Ok(Some(r.val)) ELSE r

\* one turn of the loop over the separators: Some(value returned), or None
\* when the loop goes on to the next separator
try_separator(load, text, separator, overflow_checks) ==
    LET arrow_pos == find(text, separator)
    IN  IF arrow_pos = None THEN None
        ELSE
        LET parts == split_at(text, arrow_pos[1])
            from_part == trim(parts[1])
            to_part == trim(SubSeq(parts[2], Len(separator) + 1, Len(parts[2])))
            from_num == parse_u8(from_part)
            to_num == parse_u8(to_part)
        IN  IF from_num.ok /\ to_num.ok /\ both_in_range(from_num.val, to_num.val)
            THEN Some(some_changing_reading(from_num.val, to_num.val,
                                            overflow_checks))
            ELSE IF Len(from_part) = 1 /\ Len(to_part) = 1
            THEN LET from_glyph == unicode_to_hexagram_number(load, from_part[1])
                     to_glyph == unicode_to_hexagram_number(load, to_part[1])
                 IN  IF ~from_glyph.ok THEN Some(from_glyph)
                     ELSE IF ~to_glyph.ok THEN Some(to_glyph)
                     ELSE IF from_glyph.val # None /\ to_glyph.val # None
                     THEN Some(some_changing_reading(from_glyph.val[1],
                                                     to_glyph.val[1],
                                                     overflow_checks))
                     ELSE None
            ELSE None

changing_format_error == Err([msg |-> "separator without hexagrams"])

\* the Ok(None) that ends try_parse_changing_hexagram
no_changing_format == Ok(None)

RECURSIVE try_separators(_, _, _, _)
try_separators(load, text, k, overflow_checks) ==
    IF k > Len(Separators) THEN no_changing_format
    ELSE LET r == try_separator(load, text, Separators[k], overflow_checks)
         IN  IF r # None THEN r[1]
             ELSE try_separators(load, text, k + 1, overflow_checks)

try_parse_changing_hexagram(load, text, overflow_checks) ==
    try_separators(load, text, 1, overflow_checks)

hexagram_number_at_most_64(hexagram_number) == hexagram_number <= 64

\* hexagram_number >= 1 && hexagram_number <= 64
hexagram_number_in_range(hexagram_number) ==
    hexagram_number >= 1 /\ hexagram_number <= 64

\* collect() of the parses: the first error, or all the values
RECURSIVE collect_u8(_, _)
collect_u8(parsed, k) ==
    IF k > Len(parsed) THEN Ok(<<>>)
    ELSE IF ~parsed[k].ok THEN parsed[k]
    ELSE LET rest == collect_u8(parsed, k + 1)
         IN  IF rest.ok THEN Ok(<<parsed[k].val>> \o rest.val) ELSE rest

parse_line_numbers_untrimmed(text) ==
    LET parts == split(text, Char.comma)
    IN  collect_u8([k \in 1..Len(parts) |-> parse_u8(parts[k])], 1)

\* text.split(',').map(|s| s.trim().parse::<u8>()).collect()
parse_line_numbers(text) ==
    LET parts == split(text, Char.comma)
    IN  collect_u8([k \in 1..Len(parts) |-> parse_u8(trim(parts[k]))], 1)

InvalidInput(text) == [msg |-> "Invalid input", input |-> text]

\* the comma separated line numbers, and the error that ends the function
parse_line_numbers_or_fail(text) ==
    LET line_numbers ==
            IF contains(text, Char.comma) THEN parse_line_numbers(text)
            ELSE Err("no comma")
    IN  IF /\ line_numbers.ok
           /\ Len(line_numbers.val) = 6
           /\ \A k \in 1..Len(line_numbers.val) : line_numbers.val[k] \in {6, 7, 8, 9}
        THEN cast_reading_from_numbers(
                 [i \in Positions |-> line_numbers.val[i + 1]], NoQuestion)
        ELSE Err(InvalidInput(text))

\* the Unicode character, then the line numbers
parse_unicode_or_line_numbers(load, text, overflow_checks) ==
    LET hexagram_number ==
            IF Len(text) = 1 THEN unicode_to_hexagram_number(load, text[1])
            ELSE Ok(None)
    IN  IF ~hexagram_number.ok THEN hexagram_number
        ELSE IF hexagram_number.val # None
        THEN create_reading_from_hexagram_number_build(hexagram_number.val[1],
                                                       overflow_checks)
        ELSE parse_line_numbers_or_fail(text)

\* the hexagram number tried after the Unicode character
parse_unicode_before_number(load, text, overflow_checks) ==
    LET unicode_number ==
            IF Len(text) = 1 THEN unicode_to_hexagram_number(load, text[1])
            ELSE Ok(None)
        hexagram_number == parse_u8(text)
    IN  IF unicode_number.ok /\ unicode_number.val # None
        THEN create_reading_from_hexagram_number_build(unicode_number.val[1],
                                                       overflow_checks)
        ELSE IF hexagram_number.ok /\ hexagram_number_in_range(hexagram_number.val)
        THEN create_reading_from_hexagram_number_build(hexagram_number.val,
                                                       overflow_checks)
        ELSE parse_unicode_or_line_numbers(load, text, overflow_checks)

\* the steps after the changing format: the hexagram number, then the rest
parse_hexagram_number_or_later(load, text, overflow_checks) ==
    LET hexagram_number == parse_u8(text)
    IN  IF hexagram_number.ok /\ hexagram_number_in_range(hexagram_number.val)
        THEN create_reading_from_hexagram_number_build(hexagram_number.val,
                                                       overflow_checks)
        ELSE parse_unicode_or_line_numbers(load, text, overflow_checks)

parse_input_and_create_reading(load, raw, overflow_checks) ==
    LET text == trim(raw)
        changing == try_parse_changing_hexagram(load, text, overflow_checks)
    IN  IF ~changing.ok THEN changing
        ELSE IF changing.val # None THEN Ok(changing.val[1])
        ELSE parse_hexagram_number_or_later(load, text, overflow_checks)

----------------------------------------------------------------------------
(* The input texts tried *)

\* the decimal texts tried are those of 0..MaxNumber
MaxNumber == 300

\* the data files tried lack a non-empty set of the records 1..MaxMissing
MaxMissing == 2

\* the records 1..MaxRelabel may carry a glyph that is not their own: the
\* glyph of another of them, or a digit
MaxRelabel == 3

Digit(d) == Char.zero + d

RECURSIVE Decimal(_)
Decimal(n) ==
    IF n < 10 THEN <<Digit(n)>>
    ELSE Append(Decimal(n \div 10), Digit(n % 10))

Glyph(i) == Char.hexagram + i - 1

Space == <<Char.space>>
Comma == <<Char.comma>>

\* a number, bare or with a space around it, a sign, a leading zero, a letter
NumberTexts ==
    UNION {{Decimal(n),
            Space \o Decimal(n) \o Space,
            <<Char.plus>> \o Decimal(n),
            <<Char.zero>> \o Decimal(n),
            <<Char.minus>> \o Decimal(n),
            Decimal(n) \o <<Char.x>>} : n \in 0..MaxNumber}

\* one char: the 64 glyphs, the chars next to their block, other chars
GlyphTexts ==
    {<<Glyph(i)>> : i \in 0..65}
        \cup {Space \o <<Glyph(i)>> : i \in 1..64}
        \cup {<<>>, Space, <<Char.x>>, <<Char.arrow>>, <<Glyph(1), Glyph(2)>>}

SeparatorTexts == {<<Char.arrow>>, <<Char.minus, Char.gt>>}

Operands ==
    {Decimal(n) : n \in {0, 1, 2, 32, 34, 64, 65, 256}}
        \cup {<<Glyph(i)>> : i \in {1, 2, 32, 34, 64, 65}}
        \cup {<<>>, <<Char.x>>, Space \o Decimal(1), Decimal(2) \o Space,
              <<Char.plus>> \o Decimal(7), Space \o <<Glyph(2)>>,
              <<Glyph(1), Glyph(2)>>}

SmallOperands == {<<>>, Decimal(1), Decimal(2), <<Glyph(1)>>, <<Glyph(2)>>}

\* source, separator, target
TransitionTexts ==
    {a \o sep \o b : a \in Operands, sep \in SeparatorTexts, b \in Operands}

\* two separators, of the same kind or not
TwoSeparatorTexts ==
    {a \o s1 \o b \o s2 \o c :
        a \in SmallOperands, s1 \in SeparatorTexts, b \in SmallOperands,
        s2 \in SeparatorTexts, c \in SmallOperands}

ShortAlphabet ==
    {Digit(1), Char.minus, Char.gt, Char.arrow, Glyph(1), Char.space, Char.comma}

\* every text of at most three chars of ShortAlphabet
ShortTexts ==
    UNION {[1..n -> ShortAlphabet] : n \in 0..3}

RECURSIVE JoinCodes(_, _, _, _)
JoinCodes(codes, k, before, after) ==
    IF k > Len(codes) THEN <<>>
    ELSE (IF k > 1 THEN Comma ELSE <<>>)
         \o before \o Decimal(codes[k]) \o after
         \o JoinCodes(codes, k + 1, before, after)

\* the codes with commas between them, each with `before` and `after` around it
CodeText(codes, before, after) == JoinCodes(codes, 1, before, after)

Paddings == {<<Space, <<>> >>, << <<>>, Space>>, <<Space, Space>>}

\* a part of a list that is not one digit
OddParts ==
    {<<Char.zero>> \o Decimal(7), <<Char.plus>> \o Decimal(7), Decimal(10),
     <<>>, Decimal(7) \o Space \o Decimal(8), Decimal(256), <<Char.x>>}

CodeTexts ==
    {CodeText(codes, <<>>, <<>>) : codes \in [1..6 -> 5..9]}
        \cup {CodeText(codes, pad[1], pad[2]) :
                codes \in [1..6 -> 6..9], pad \in Paddings}
        \cup {CodeText(codes, <<>>, <<>>) : codes \in [1..5 -> {7, 9}]}
        \cup {CodeText(codes, <<>>, <<>>) : codes \in [1..7 -> {7, 9}]}
        \cup {CodeText(<<7, 8>>, <<>>, <<>>) \o Comma \o odd \o Comma
                \o CodeText(<<6, 7, 8>>, <<>>, <<>>) : odd \in OddParts}
        \cup {Decimal(7) \o Comma \o Space \o Decimal(8) \o Space \o Comma
                \o CodeText(<<9, 6, 7, 8>>, <<>>, <<>>)}

\* "banana" and "invalid"
WordTexts ==
    {<<98, 97, 110, 97, 110, 97>>, <<105, 110, 118, 97, 108, 105, 100>>}

InputTexts ==
    NumberTexts \cup GlyphTexts \cup TransitionTexts \cup TwoSeparatorTexts
        \cup ShortTexts \cup CodeTexts \cup WordTexts

MissingRecords == (SUBSET (1..MaxMissing)) \ {{}}

\* the records that carry a digit as their glyph are those of 1..MaxRelabel
RelabelledRecords == 1..MaxRelabel

\* the digits that are an identifier of 1..64 as a text of one char
IdentifierDigits == 1..9

\* the texts tried with such a data file: the short numbers, bare, with
\* spaces, a sign or a leading zero, and the texts of one char
DigitGlyphTexts ==
    UNION {{Decimal(n),
            Space \o Decimal(n) \o Space,
            <<Char.plus>> \o Decimal(n),
            <<Char.zero>> \o Decimal(n)} : n \in 0..12}
        \cup GlyphTexts

\* the texts tried when IChingData::load() fails: the short numbers and some
\* longer ones, the texts of one char, the texts with separators, some lists
NoDataTexts ==
    DigitGlyphTexts \cup TransitionTexts \cup TwoSeparatorTexts
        \cup ShortTexts \cup WordTexts
        \cup {Decimal(n) : n \in {22, 64, 65, 256}}
        \cup {CodeText(codes, pad[1], pad[2]) :
                codes \in [1..6 -> {6, 9}], pad \in Paddings}
        \cup {CodeText(<<7, 8, 5, 6, 7, 8>>, <<>>, <<>>),
              CodeText(<<7, 9, 7, 9, 7>>, <<>>, <<>>),
              CodeText(<<7, 9, 7, 9, 7, 9, 7>>, <<>>, <<>>)}

IsPanic(r) == ~r.ok /\ "panic" \in DOMAIN r

Outcome(r) == IF r.ok THEN "resolved" ELSE IF IsPanic(r) THEN "panicked" ELSE "failed"

----------------------------------------------------------------------------
(* The interpreter run: run_cli hands the input text to                     *)
(* parse_input_and_create_reading                                           *)

\* parse_input_and_create_reading(&mut diviner, text) with the complete data
ParseInput ==
    /\ pc = "start"
    /\ \E text \in InputTexts, overflow_checks \in BOOLEAN :
        /\ input' = [text |-> text, missing |-> {}, relabel |-> <<>>, loaded |-> TRUE]
        /\ result' = parse_input_and_create_reading(Ok(IChingData_load({})),
                                                    text, overflow_checks)
        /\ pc' = Outcome(result')
    /\ route' = "parse_input_and_create_reading"
    /\ UNCHANGED <<coins, cast, transformed, again>>

\* the same with a data file that lacks records
ParseInputPartialData ==
    /\ pc = "start"
    /\ \E text \in GlyphTexts \cup TransitionTexts,
          missing \in MissingRecords, overflow_checks \in BOOLEAN :
        /\ input' = [text |-> text, missing |-> missing, relabel |-> <<>>,
                      loaded |-> TRUE]
        /\ result' = parse_input_and_create_reading(Ok(IChingData_load(missing)),
                                                    text, overflow_checks)
        /\ pc' = Outcome(result')
    /\ route' = "parse_input_and_create_reading"
    /\ UNCHANGED <<coins, cast, transformed, again>>

\* the same with a data file whose record `number` has a digit as its glyph
ParseInputDigitGlyph ==
    /\ pc = "start"
    /\ \E text \in DigitGlyphTexts, number \in RelabelledRecords,
          d \in IdentifierDigits, overflow_checks \in BOOLEAN :
        /\ input' = [text |-> text, missing |-> {}, relabel |-> <<number, d>>,
                      loaded |-> TRUE]
        /\ result' = parse_input_and_create_reading(
                         Ok(DigitGlyphData(number, d)), text, overflow_checks)
        /\ pc' = Outcome(result')
    /\ route' = "parse_input_and_create_reading"
    /\ UNCHANGED <<coins, cast, transformed, again>>

\* the same when IChingData::load() fails
ParseInputNoData ==
    /\ pc = "start"
    /\ \E text \in NoDataTexts, overflow_checks \in BOOLEAN :
        /\ input' = [text |-> text, missing |-> {}, relabel |-> <<>>, loaded |-> FALSE]
        /\ result' = parse_input_and_create_reading(LoadFailure, text,
                                                    overflow_checks)
        /\ pc' = Outcome(result')
    /\ route' = "parse_input_and_create_reading"
    /\ UNCHANGED <<coins, cast, transformed, again>>

\* create_reading_from_hexagram_number(n) called with any u8
CreateReadingFromAnyNumber ==
    /\ pc = "start"
    /\ \E n \in U8, overflow_checks \in BOOLEAN :
        /\ input' = n
        /\ result' = create_reading_from_hexagram_number_build(n, overflow_checks)
        /\ pc' = Outcome(result')
    /\ route' = "create_reading_from_any_number"
    /\ UNCHANGED <<coins, cast, transformed, again>>

NextParse ==
    \/ ParseInput
    \/ ParseInputPartialData
    \/ ParseInputDigitGlyph
    \/ ParseInputNoData
    \/ CreateReadingFromAnyNumber

SpecParse == Init /\ [][NextParse]_vars

----------------------------------------------------------------------------
(* Vocabulary of the properties of the interpreter *)

ParseRoute == route = "parse_input_and_create_reading"

\* what IChingData::load() returned in this run
RunLoad ==
    IF ~input.loaded THEN LoadFailure
    ELSE IF input.relabel = <<>> THEN Ok(IChingData_load(input.missing))
    ELSE Ok(DigitGlyphData(input.relabel[1], input.relabel[2]))

\* the interpreter ran, and IChingData::load() gave it its data
ParseRouteLoaded == ParseRoute /\ input.loaded

\* the offsets at which a separator occurs in s
SeparatorOffsets(s) ==
    {p \in 0..Len(s) : \E sep \in SeparatorTexts : occurs_at(s, sep, p)}

SeparatorAt(s, p) == CHOOSE sep \in SeparatorTexts : occurs_at(s, sep, p)

HasSeparator(s) == SeparatorOffsets(s) # {}

LeftmostSeparator(s) ==
    CHOOSE p \in SeparatorOffsets(s) : \A q \in SeparatorOffsets(s) : p <= q

\* the trimmed text before the separator at p, and the trimmed text after it
SourceSide(s, p) == trim(SubSeq(s, 1, p))
TargetSide(s, p) == trim(SubSeq(s, p + Len(SeparatorAt(s, p)) + 1, Len(s)))

IsIdentifier(t) == parse_u8(t).ok /\ parse_u8(t).val \in 1..64

\* the identifier the loaded records give the char c; none without data
GlyphNumber(load, c) ==
    IF load.ok THEN unicode_to_hexagram_number(load, c).val ELSE None

IsGlyph(load, t) == Len(t) = 1 /\ GlyphNumber(load, t[1]) # None

\* the glyph lookup is made for the one char of t, and the load fails
LookupFails(load, t) == ~load.ok /\ Len(t) = 1

NumericPair(a, b) == IsIdentifier(a) /\ IsIdentifier(b)
GlyphPair(load, a, b) == IsGlyph(load, a) /\ IsGlyph(load, b)

\* the split of s at p reaches the glyph lookup, and the load fails
SplitFailsLoad(load, s, p) ==
    /\ ~NumericPair(SourceSide(s, p), TargetSide(s, p))
    /\ LookupFails(load, SourceSide(s, p))
    /\ Len(TargetSide(s, p)) = 1

\* the transition of the single split of s at p: Some(figure) or None
TransitionOfSplit(load, s, p) ==
    LET a == SourceSide(s, p)
        b == TargetSide(s, p)
    IN  IF NumericPair(a, b)
        THEN Some(create_changing_reading_from_numbers(
                      parse_u8(a).val, parse_u8(b).val).val)
        ELSE IF GlyphPair(load, a, b)
        THEN Some(create_changing_reading_from_numbers(
                      GlyphNumber(load, a[1])[1],
                      GlyphNumber(load, b[1])[1]).val)
        ELSE None

\* s is a list of exactly six codes of {6,7,8,9}
IsSixCodes(s) ==
    /\ contains(s, Char.comma)
    /\ LET parts == split(s, Char.comma)
       IN  /\ Len(parts) = 6
           /\ \A k \in 1..6 :
                /\ parse_u8(trim(parts[k])).ok
                /\ parse_u8(trim(parts[k])).val \in 6..9

SixCodesOf(s) ==
    LET parts == split(s, Char.comma)
    IN  [i \in Positions |-> parse_u8(trim(parts[i + 1])).val]

\* what the numeric, the glyph and the six codes steps make of the text s
LaterStepsOutcome(load, s) ==
    IF IsIdentifier(s)
    THEN create_reading_from_hexagram_number(parse_u8(s).val)
    ELSE IF LookupFails(load, s) THEN LoadError
    ELSE IF IsGlyph(load, s)
    THEN create_reading_from_hexagram_number(GlyphNumber(load, s[1])[1])
    ELSE IF IsSixCodes(s)
    THEN cast_reading_from_numbers(SixCodesOf(s), NoQuestion)
    ELSE Err(InvalidInput(s))

IsTransition(load, s) ==
    HasSeparator(s) /\ TransitionOfSplit(load, s, LeftmostSeparator(s)) # None

\* what the interpreter makes of s when no split but the leftmost one counts
SingleSplitOutcome(load, s) ==
    IF IsTransition(load, s)
    THEN Ok(TransitionOfSplit(load, s, LeftmostSeparator(s))[1])
    ELSE IF HasSeparator(s) /\ SplitFailsLoad(load, s, LeftmostSeparator(s))
    THEN LoadError
    ELSE LaterStepsOutcome(load, s)

\* the text with its spaces removed
Unspaced(t) == SelectSeq(t, LAMBDA c : c # Char.space)

\* six digits of 6..9 with commas between them, and spaces anywhere else
IsSpacedCodeList(t) ==
    LET u == Unspaced(t)
    IN  /\ Len(u) = 11
        /\ \A k \in 1..11 :
              IF k % 2 = 1 THEN u[k] \in {Digit(d) : d \in 6..9}
              ELSE u[k] = Char.comma

DigitsOf(t) == [i \in Positions |-> Unspaced(t)[2 * i + 1] - Char.zero]

AllDigits(t) == t # <<>> /\ \A k \in 1..Len(t) : is_digit(t[k])

RECURSIVE DecimalValue(_)
DecimalValue(t) ==
    IF t = <<>> THEN 0
    ELSE 10 * DecimalValue(SubSeq(t, 1, Len(t) - 1)) + (t[Len(t)] - Char.zero)

----------------------------------------------------------------------------
(* C11 *)

\* C11: a text that is six codes of {6,7,8,9} separated by commas, with or
\* without spaces around the codes, resolves to the reading whose
\* traditional_numbers() are those codes in the same order, bottom first; it
\* resolves to the same reading as the text without the spaces.
C11_SixLineCodes ==
    ParseRoute /\ IsSpacedCodeList(input.text) =>
        /\ result.ok
        /\ pc = "resolved"
        /\ traditional_numbers(result.val) = DigitsOf(input.text)
        /\ result = parse_input_and_create_reading(
                        RunLoad, Unspaced(input.text), TRUE)

C11_Witness ==
    /\ ParseRouteLoaded
    /\ input.text = <<55, 44, 32, 56, 32, 44, 57, 44, 54, 44, 55, 44, 56>>
    /\ result.ok
    /\ traditional_numbers(result.val) = Arr(<<7, 8, 9, 6, 7, 8>>)

----------------------------------------------------------------------------
(* C12 *)

\* the text is an identifier of 1..64 and the glyph of a record at once
NumberAndGlyph(load, s) == IsIdentifier(s) /\ IsGlyph(load, s)

\* C12: with its data loaded, parse_input_and_create_reading returns what
\* the first matching of the transition, the numeric identifier, the single
\* glyph and the six codes makes of the trimmed text; a text that parses as
\* an integer n of 1..64 always resolves to the reading of identifier n whose
\* lines are all Young, also when the glyph lookup finds that text as the
\* glyph of another record, and whatever else the lookup would return.
C12_ResolutionPriority ==
    ParseRoute =>
        LET s == trim(input.text)
        IN  /\ (input.loaded => result = SingleSplitOutcome(RunLoad, s))
            /\ (IsIdentifier(s) =>
                  /\ result.ok
                  /\ result = create_reading_from_hexagram_number(parse_u8(s).val)
                  /\ primary_hexagram(result.val) = parse_u8(s).val
                  /\ AllYoung(result.val)
                  /\ ~has_changing_lines(result.val))
            /\ (input.loaded /\ ~IsTransition(RunLoad, s) /\ ~IsIdentifier(s)
                    /\ IsGlyph(RunLoad, s) =>
                  /\ result.ok
                  /\ primary_hexagram(result.val) = GlyphNumber(RunLoad, s[1])[1]
                  /\ AllYoung(result.val))

\* the text "7" with a data file whose record 3 has "7" as its glyph
C12_Witness ==
    /\ ParseRouteLoaded
    /\ input.text = Decimal(7)
    /\ input.relabel = <<3, 7>>
    /\ NumberAndGlyph(RunLoad, input.text)
    /\ GlyphNumber(RunLoad, Digit(7)) = Some(3)
    /\ result.ok
    /\ primary_hexagram(result.val) = 7
    /\ AllYoung(result.val)

----------------------------------------------------------------------------
(* C13 *)

\* s is none of the four notations
IsUnrecognized(load, s) ==
    /\ ~IsTransition(load, s)
    /\ ~IsIdentifier(s)
    /\ ~IsGlyph(load, s)
    /\ ~IsSixCodes(s)

FailingExamples ==
    {Decimal(65), Decimal(0), CodeText(<<7, 8, 5, 6, 7, 8>>, <<>>, <<>>),
     <<98, 97, 110, 97, 110, 97>>,
     CodeText(<<7, 9, 7, 9, 7>>, <<>>, <<>>),
     CodeText(<<7, 9, 7, 9, 7, 9, 7>>, <<>>, <<>>)}

\* C13: no text makes parse_input_and_create_reading panic, whether the
\* build checks overflow or not; with its data loaded, a text that is none
\* of the four notations makes it return the error that carries the trimmed
\* text: "65", "0", "7,8,5,6,7,8", "banana" and lists of five or seven codes
\* fail this way.
C13_UnrecognizedInput ==
    ParseRoute =>
        LET s == trim(input.text)
        IN  /\ pc # "panicked"
            /\ ~IsPanic(result)
            /\ (input.loaded /\ IsUnrecognized(RunLoad, s) =>
                  /\ pc = "failed"
                  /\ result = Err(InvalidInput(s)))
            /\ (input.loaded /\ input.text \in FailingExamples =>
                  result = Err(InvalidInput(input.text)))

C13_Witness ==
    /\ ParseRouteLoaded
    /\ input.text = Decimal(0)
    /\ IsUnrecognized(RunLoad, input.text)
    /\ pc = "failed"
    /\ result = Err(InvalidInput(Decimal(0)))

----------------------------------------------------------------------------
(* C14 *)

DirectRoute == route = "create_reading_from_any_number"

\* C14 as claimed: create_reading_from_hexagram_number called with an id
\* outside 1..64 fails with an error and returns no reading.
C14_RejectsOutOfRange ==
    DirectRoute /\ input \notin 1..64 =>
        /\ ~result.ok
        /\ ~IsPanic(result)
        /\ pc = "failed"

\* C14, amended: create_reading_from_hexagram_number checks no range: with an
\* id of 65..255 it returns the all Young reading of identifier
\* ((id - 1) mod 64) + 1, with 0 the subtraction panics where the build
\* checks overflow and gives the reading of identifier 64 where it does not;
\* the range is checked by its caller, which rejects a decimal text whose
\* value is outside 1..64 with the error that carries the text (for the one
\* digit "0" with the error of the load when the data cannot be loaded).
C14_RangeCheckedByCaller ==
    /\ (DirectRoute /\ input \in 65..255 =>
          /\ result.ok
          /\ AllYoung(result.val)
          /\ primary_hexagram(result.val) = ((input - 1) % 64) + 1)
    /\ (DirectRoute /\ input = 0 =>
          \/ IsPanic(result)
          \/ result.ok /\ AllYoung(result.val) /\ primary_hexagram(result.val) = 64)
    /\ (ParseRoute /\ AllDigits(input.text)
            /\ DecimalValue(input.text) \notin 1..64 =>
          /\ pc = "failed"
          /\ result = IF LookupFails(RunLoad, input.text) THEN LoadError
                      ELSE Err(InvalidInput(input.text)))

C14_Witness ==
    /\ DirectRoute
    /\ input = 65
    /\ result.ok
    /\ primary_hexagram(result.val) = 1

----------------------------------------------------------------------------
(* C15 *)

\* C15: cast_reading never panics and never fails: every sum of three coins
\* casts a line, every line of the reading has a code of {6,7,8,9}, and the
\* identifier of the reading is in 1..64.
C15_RandomCastValid ==
    /\ \A tosses \in CoinTosses :
          /\ coin_sum(tosses) \in 6..9
          /\ cast_line(tosses).ok
    /\ (route = "cast_reading" =>
          /\ pc # "panicked"
          /\ pc # "failed"
          /\ \A k \in 1..Len(cast) : traditional_number(cast[k]) \in 6..9
          /\ (Len(cast) = NumLines =>
                /\ result.ok
                /\ \A i \in Positions :
                      traditional_numbers(result.val)[i] \in 6..9
                /\ primary_hexagram(result.val) \in 1..64))

C15_Witness ==
    /\ route = "cast_reading"
    /\ Len(cast) = NumLines
    /\ result.ok
    /\ \E i \in Positions : traditional_numbers(result.val)[i] = 6
    /\ \E i \in Positions : traditional_numbers(result.val)[i] = 9

----------------------------------------------------------------------------
(* C17 *)

\* the bits at which the binary forms of a and b differ
DifferingBits(a, b) == {j \in Positions : bit(a, j) # bit(b, j)}

\* C17: the reading that create_changing_reading_from_numbers builds for
\* S -> T has, at each position i, the polarity of bit i of S-1 (1 = Yang),
\* and the line is Old exactly when bit i of S-1 and bit i of T-1 differ; its
\* changing positions are the differing bits, and their number is the Hamming
\* distance of S-1 and T-1.
C17_TransitionConstruction ==
    route = "create_changing_reading_from_numbers" =>
        LET from_binary == input[1] - 1
            to_binary == input[2] - 1
            lines == result.val.lines
        IN  /\ result.ok
            /\ \A i \in Positions :
                  /\ lines[i].polarity = "Yang" <=> bit(from_binary, i) = 1
                  /\ lines[i].polarity = "Yin" <=> bit(from_binary, i) = 0
                  /\ lines[i].age = "Old" <=>
                         bit(from_binary, i) # bit(to_binary, i)
                  /\ lines[i].age = "Young" <=>
                         bit(from_binary, i) = bit(to_binary, i)
            /\ OldPositions(result.val) = DifferingBits(from_binary, to_binary)
            /\ LET positions == changing_line_positions(result.val)
               IN  /\ {positions[k] : k \in 1..Len(positions)} =
                          {j + 1 : j \in DifferingBits(from_binary, to_binary)}
                   /\ Len(positions) =
                          Cardinality(DifferingBits(from_binary, to_binary))

C17_Witness ==
    /\ route = "create_changing_reading_from_numbers"
    /\ input = <<32, 34>>
    /\ result.ok
    /\ changing_line_positions(result.val) = <<2, 3, 4, 5, 6>>

----------------------------------------------------------------------------
(* C18 *)

\* C18: of a text with one separator, the two sides are trimmed and accepted
\* as a transition exactly when both parse as integers of 1..64 or both are
\* single glyphs of the loaded data; the figure is the one built from the two
\* identifiers, and the glyph form resolves to the same figure as the numeric
\* form of the same identifiers; any other pair is no transition, and the
\* text fails: with the error of the load when the data cannot be loaded and
\* the glyph lookup is reached, as invalid input otherwise.
C18_TransitionOperands ==
    ParseRoute /\ Cardinality(SeparatorOffsets(trim(input.text))) = 1 =>
        LET s == trim(input.text)
            p == LeftmostSeparator(s)
            a == SourceSide(s, p)
            b == TargetSide(s, p)
            t == try_parse_changing_hexagram(RunLoad, s, TRUE)
        IN  /\ (t.ok /\ t.val # None) <=>
                   (NumericPair(a, b) \/ GlyphPair(RunLoad, a, b))
            /\ (NumericPair(a, b) =>
                  /\ result = create_changing_reading_from_numbers(
                                  parse_u8(a).val, parse_u8(b).val)
                  /\ primary_hexagram(result.val) = parse_u8(a).val)
            /\ (GlyphPair(RunLoad, a, b) =>
                  LET from_num == GlyphNumber(RunLoad, a[1])[1]
                      to_num == GlyphNumber(RunLoad, b[1])[1]
                  IN  /\ input.loaded
                      /\ a[1] = Glyph(from_num)
                      /\ b[1] = Glyph(to_num)
                      /\ result = create_changing_reading_from_numbers(
                                      from_num, to_num)
                      /\ result = parse_input_and_create_reading(RunLoad,
                             Decimal(from_num) \o SeparatorAt(s, p)
                                 \o Decimal(to_num), TRUE))
            /\ (~NumericPair(a, b) /\ ~GlyphPair(RunLoad, a, b) =>
                  IF SplitFailsLoad(RunLoad, s, p)
                  THEN t = LoadError /\ result = LoadError
                  ELSE /\ t = Ok(None)
                       /\ result = IF LookupFails(RunLoad, s) THEN LoadError
                                   ELSE Err(InvalidInput(s)))

C18_Witness ==
    /\ ParseRoute
    /\ input.text = <<Glyph(1), Char.arrow, Glyph(2)>>
    /\ input.loaded
    /\ input.missing = {}
    /\ result.ok
    /\ primary_hexagram(result.val) = 1
    /\ changing_line_positions(result.val) = <<1>>

----------------------------------------------------------------------------
(* C19 *)

\* C19: with the data loaded, when the text holds a separator and the
\* transition step produces no reading, try_parse_changing_hexagram returns
\* Ok(None), never an error, and the outcome of the interpreter is what the
\* numeric, the glyph and the six codes steps make of the whole text.
C19_FailedTransitionFallsThrough ==
    ParseRouteLoaded /\ HasSeparator(trim(input.text)) =>
        LET s == trim(input.text)
            t == try_parse_changing_hexagram(RunLoad, s, TRUE)
        IN  /\ t.ok
            /\ (t.val = None =>
                  /\ ~result.ok
                  /\ result = LaterStepsOutcome(RunLoad, s)
                  /\ result.err.input = s)

C19_Witness ==
    /\ ParseRouteLoaded
    /\ input.text = Decimal(65) \o <<Char.arrow>> \o Decimal(1)
    /\ try_parse_changing_hexagram(RunLoad, input.text, TRUE) = Ok(None)
    /\ pc = "failed"
    /\ result = Err(InvalidInput(input.text))

----------------------------------------------------------------------------
(* C20 *)

\* C20: with the data loaded, for every text try_parse_changing_hexagram
\* gives what the single split of the text at the leftmost occurrence of
\* either separator gives: the source is what is before it, the target what
\* is after it, neither is searched again.
C20_TransitionSplitPoint ==
    ParseRouteLoaded /\ HasSeparator(trim(input.text)) =>
        LET s == trim(input.text)
        IN  /\ try_parse_changing_hexagram(RunLoad, s, TRUE) =
                   Ok(TransitionOfSplit(RunLoad, s, LeftmostSeparator(s)))
            /\ (Cardinality(SeparatorOffsets(s)) > 1 => ~result.ok)

\* "1->2" followed by the Unicode arrow and "1": both separators, the ASCII
\* one leftmost
C20_Witness ==
    /\ ParseRouteLoaded
    /\ input.text = <<Digit(1), Char.minus, Char.gt, Digit(2), Char.arrow, Digit(1)>>
    /\ LeftmostSeparator(input.text) = 1
    /\ TransitionOfSplit(RunLoad, input.text, 1) = None
    /\ pc = "failed"

----------------------------------------------------------------------------
(* The output formats of run_cli (cli.rs). A formatted text is the record   *)
(* of its parts, in the order the code writes them.                         *)

\* the glyph the status line writes for a record it does not find
UnknownGlyph == <<Char.hexagram + 28>>

to_uppercase(name) == [uppercase |-> name]

upper_trigram(reading) == [k \in 0..2 |-> reading.lines[k + 3].polarity]
lower_trigram(reading) == [k \in 0..2 |-> reading.lines[k].polarity]

JsonHexagram(hexagram) ==
    [number |-> hexagram.number,
     name |-> hexagram.name,
     chinese |-> hexagram.chinese,
     pinyin |-> hexagram.pinyin,
     unicode |-> hexagram.unicode,
     description |-> hexagram.description,
     judgment |-> hexagram.judgment,
     image |-> hexagram.image]

\* the filter_map over the changing positions, from the k-th on
RECURSIVE json_changing_lines(_, _, _, _)
json_changing_lines(data, hexagram_number, positions, k) ==
    IF k > Len(positions) THEN <<>>
    ELSE LET interp == get_line_interpretation(data, hexagram_number, positions[k])
             rest == json_changing_lines(data, hexagram_number, positions, k + 1)
         IN  IF interp = None THEN rest
             ELSE <<[position |-> positions[k],
                     text |-> interp[1].text,
                     comments |-> interp[1].comments]>> \o rest

json_transformed_hexagram(data, reading) ==
    LET transformed_reading == transformed_hexagram(reading)
    IN  IF transformed_reading = None THEN None
        ELSE LET hex == get_hexagram(data, primary_hexagram(transformed_reading[1]))
             IN  IF hex = None THEN None ELSE Some(JsonHexagram(hex[1]))

json_primary_found(data, reading) ==
    LET hexagram_number == primary_hexagram(reading)
        hexagram == get_hexagram(data, hexagram_number)
    IN  Ok([question |-> reading.question,
            lines |-> traditional_numbers(reading),
            primary_hexagram |-> JsonHexagram(hexagram[1]),
            changing_lines |-> json_changing_lines(data, hexagram_number,
                                   changing_line_positions(reading), 1),
            transformed_hexagram |-> json_transformed_hexagram(data, reading),
            upper_trigram |-> upper_trigram(reading),
            lower_trigram |-> lower_trigram(reading)])

create_json_reading_placeholder(data, reading) ==
    IF get_hexagram(data, primary_hexagram(reading)) # None
    THEN json_primary_found(data, reading)
    ELSE Ok([question |-> reading.question,
             lines |-> traditional_numbers(reading),
             primary_hexagram |-> [number |-> primary_hexagram(reading),
                                   unknown |-> "Unknown"],
             changing_lines |-> <<>>,
             transformed_hexagram |-> json_transformed_hexagram(data, reading),
             upper_trigram |-> upper_trigram(reading),
             lower_trigram |-> lower_trigram(reading)])

\* create_json_reading after the load
create_json_reading(data, reading) ==
    LET hexagram_number == primary_hexagram(reading)
    IN  IF get_hexagram(data, hexagram_number) = None
        THEN Err([msg |-> "Hexagram not found", number |-> hexagram_number])
        ELSE json_primary_found(data, reading)

format_numbers(reading) == Ok([numbers |-> traditional_numbers(reading)])

brief_transformed_unknown(transformed_number) ==
    Some([separator |-> <<Char.arrow>>, number |-> transformed_number,
          unknown |-> "Unknown"])

brief_transformed(data, reading) ==
    LET transformed_reading == transformed_hexagram(reading)
    IN  IF transformed_reading = None THEN None
        ELSE LET transformed_number == primary_hexagram(transformed_reading[1])
                 transformed_hex == get_hexagram(data, transformed_number)
             IN  IF transformed_hex # None
                 THEN Some([separator |-> <<Char.arrow>>,
                            unicode |-> transformed_hex[1].unicode,
                            number |-> transformed_number,
                            name |-> transformed_hex[1].name])
                 ELSE brief_transformed_unknown(transformed_number)

\* format_brief after the load
format_brief(data, reading) ==
    LET hexagram_number == primary_hexagram(reading)
        hexagram == get_hexagram(data, hexagram_number)
    IN  IF hexagram # None
        THEN Ok([question |-> reading.question,
                 primary |-> [unicode |-> hexagram[1].unicode,
                              number |-> hexagram_number,
                              name |-> hexagram[1].name],
                 transformed |-> IF has_changing_lines(reading)
                                 THEN brief_transformed(data, reading) ELSE None,
                 lines |-> IF has_changing_lines(reading)
                           THEN Some(changing_line_positions(reading)) ELSE None])
        ELSE Ok([question |-> reading.question,
                 primary |-> [number |-> hexagram_number,
                              unknown |-> "(Unknown)"],
                 transformed |-> None,
                 lines |-> None])

Solid == <<9473, 9473, 9473, 9473, 9473, 9473>>
Broken == <<9473, 9473, 32, 32, 9473, 9473>>

\* Line::to_symbol
to_symbol(line) ==
    IF line.age = "Young"
    THEN IF line.polarity = "Yang" THEN Solid ELSE Broken
    ELSE IF line.polarity = "Yang" THEN Solid \o <<32, 9675>>
         ELSE Broken \o <<32, 215>>

\* Reading::display(): the lines are written from the top one down
display(reading) ==
    [question |-> reading.question,
     hexagram |-> primary_hexagram(reading),
     lines |-> [k \in 1..NumLines |->
                  [position |-> NumLines + 1 - k,
                   symbol |-> to_symbol(reading.lines[NumLines - k])]],
     changing_lines |-> IF has_changing_lines(reading)
                        THEN Some(changing_line_positions(reading)) ELSE None,
     transforms_to |->
        IF has_changing_lines(reading) /\ transformed_hexagram(reading) # None
        THEN Some(primary_hexagram(transformed_hexagram(reading)[1]))
        ELSE None]

\* the lines of format_full for the changing positions, from the k-th on
RECURSIVE full_changing_lines(_, _, _, _)
full_changing_lines(data, hexagram_number, positions, k) ==
    IF k > Len(positions) THEN <<>>
    ELSE LET line_interp == get_line_interpretation(data, hexagram_number, positions[k])
             rest == full_changing_lines(data, hexagram_number, positions, k + 1)
         IN  IF line_interp = None THEN rest
             ELSE <<[line |-> positions[k],
                     text |-> line_interp[1].text,
                     comments |-> line_interp[1].comments]>> \o rest

full_transformed(data, reading) ==
    LET transformed_reading == transformed_hexagram(reading)
    IN  IF transformed_reading = None THEN None
        ELSE LET transformed_hex ==
                     get_hexagram(data, primary_hexagram(transformed_reading[1]))
             IN  IF transformed_hex = None THEN None
                 ELSE Some([unicode |-> transformed_hex[1].unicode,
                            name |-> transformed_hex[1].name,
                            chinese |-> transformed_hex[1].chinese,
                            pinyin |-> transformed_hex[1].pinyin,
                            description |-> transformed_hex[1].description,
                            judgment |-> transformed_hex[1].judgment.text])

full_meanings(data, reading) ==
    LET hexagram_number == primary_hexagram(reading)
        hexagram == get_hexagram(data, hexagram_number)
    IN  IF hexagram = None THEN None
        ELSE Some([unicode |-> hexagram[1].unicode,
                   name |-> hexagram[1].name,
                   chinese |-> hexagram[1].chinese,
                   pinyin |-> hexagram[1].pinyin,
                   description |-> hexagram[1].description,
                   judgment |-> hexagram[1].judgment,
                   image |-> hexagram[1].image,
                   changing_lines |->
                      IF has_changing_lines(reading)
                      THEN Some(full_changing_lines(data, hexagram_number,
                                    changing_line_positions(reading), 1))
                      ELSE None,
                   transformed |->
                      IF has_changing_lines(reading)
                      THEN full_transformed(data, reading) ELSE None])

\* format_full after the load
format_full(data, reading) ==
    Ok([display |-> display(reading),
        traditional_numbers |-> traditional_numbers(reading),
        upper_trigram |-> upper_trigram(reading),
        lower_trigram |-> lower_trigram(reading),
        meanings |-> full_meanings(data, reading)])

motd_changing(data, reading, hexagram) ==
    LET hexagram_number == primary_hexagram(reading)
        transformed_reading == transformed_hexagram(reading)
        plain == [unicode |-> hexagram.unicode,
                  number |-> hexagram_number,
                  name |-> to_uppercase(hexagram.name)]
    IN  IF transformed_reading = None THEN plain
        ELSE LET transformed_number == primary_hexagram(transformed_reading[1])
                 transformed_hex == get_hexagram(data, transformed_number)
             IN  IF transformed_hex # None
                 THEN [unicode |-> hexagram.unicode,
                       separator |-> <<Char.arrow>>,
                       transformed_unicode |-> transformed_hex[1].unicode,
                       number |-> hexagram_number,
                       name |-> to_uppercase(hexagram.name),
                       transformed_number |-> transformed_number,
                       transformed_name |-> to_uppercase(transformed_hex[1].name)]
                 ELSE [unicode |-> hexagram.unicode,
                       separator |-> <<Char.arrow>>,
                       transformed_unicode |-> UnknownGlyph,
                       number |-> hexagram_number,
                       name |-> to_uppercase(hexagram.name),
                       transformed_number |-> transformed_number,
                       transformed_unknown |-> "UNKNOWN"]

\* format_motd after the load
format_motd(data, reading) ==
    LET hexagram_number == primary_hexagram(reading)
        hexagram == get_hexagram(data, hexagram_number)
    IN  IF hexagram # None
        THEN IF has_changing_lines(reading)
             THEN Ok(motd_changing(data, reading, hexagram[1]))
             ELSE Ok([unicode |-> hexagram[1].unicode,
                      number |-> hexagram_number,
                      name |-> to_uppercase(hexagram[1].name)])
        ELSE Ok([unicode |-> UnknownGlyph,
                 number |-> hexagram_number,
                 unknown |-> "UNKNOWN"])

Formats == {"Brief", "Full", "Json", "Numbers", "Motd"}

\* the match of run_cli on cli.format; each branch but Numbers loads the data
format_output(format, loaded, data, reading) ==
    IF format = "Numbers" THEN format_numbers(reading)
    ELSE IF ~loaded THEN LoadError
    ELSE IF format = "Json" THEN create_json_reading(data, reading)
    ELSE IF format = "Brief" THEN format_brief(data, reading)
    ELSE IF format = "Full" THEN format_full(data, reading)
    ELSE format_motd(data, reading)

\* the identifiers the formats look up for the reading
LookedUp(reading) ==
    {primary_hexagram(reading)} \cup
        (IF transformed_hexagram(reading) = None THEN {}
         ELSE {primary_hexagram(transformed_hexagram(reading)[1])})

\* the data files the formats are run with: complete, lacking looked up
\* records, or not found at all
Stores(reading) ==
    {[loaded |-> TRUE, missing |-> m] : m \in SUBSET LookedUp(reading)}
        \cup {[loaded |-> FALSE, missing |-> {}]}

\* the branch of run_cli for `format` on the reading that was resolved
Format(format) ==
    /\ pc = "resolved"
    /\ \E store \in Stores(result.val) :
        /\ input' = [reading |-> result.val, store |-> store]
        /\ result' = format_output(format, store.loaded,
                                   IChingData_load(store.missing), result.val)
    /\ route' = format
    /\ pc' = "formatted"
    /\ UNCHANGED <<coins, cast, transformed, again>>

FormatJson == Format("Json")
FormatNumbers == Format("Numbers")
FormatBrief == Format("Brief")
FormatFull == Format("Full")
FormatMotd == Format("Motd")

NextOutput ==
    \/ CreateReadingFromHexagramNumber
    \/ CreateChangingReadingFromNumbers
    \/ FormatJson
    \/ FormatNumbers
    \/ FormatBrief
    \/ FormatFull
    \/ FormatMotd

SpecOutput == Init /\ [][NextOutput]_vars

----------------------------------------------------------------------------
(* C16 *)

Formatted == pc = "formatted"

\* the store lacks the record of the primary or of the transformed hexagram
PrimaryMissing == primary_hexagram(input.reading) \in input.store.missing
TransformedMissing ==
    /\ transformed_hexagram(input.reading) # None
    /\ primary_hexagram(transformed_hexagram(input.reading)[1])
           \in input.store.missing

\* C16 as claimed: when the store has no record for the identifier of the
\* primary or of the transformed hexagram, every output format returns an
\* error.
C16_LookupFailureSurfaced ==
    Formatted /\ input.store.loaded /\ (PrimaryMissing \/ TransformedMissing) =>
        ~result.ok

\* C16, amended: only create_json_reading returns an error, and only when the
\* record of the primary hexagram is missing ("Hexagram n not found"); with a
\* missing record of the transformed hexagram it returns the reading with no
\* transformed_hexagram. format_brief and format_motd return text with an
\* "Unknown" placeholder for the missing record, format_full returns text
\* with the meanings of the missing record left out, and the Numbers format
\* never consults the store. A format fails otherwise only when the data
\* cannot be loaded at all.
C16_LookupFailurePerFormat ==
    Formatted =>
        LET reading == input.reading
            n == primary_hexagram(reading)
        IN  /\ ~result.ok <=>
                  \/ route # "Numbers" /\ ~input.store.loaded
                  \/ route = "Json" /\ PrimaryMissing
            /\ (route = "Json" /\ PrimaryMissing =>
                  result.err = [msg |-> "Hexagram not found", number |-> n])
            /\ (route = "Json" /\ result.ok =>
                  /\ result.val.primary_hexagram.number = n
                  /\ result.val.lines = traditional_numbers(reading)
                  /\ result.val.transformed_hexagram = None <=>
                        transformed_hexagram(reading) = None \/ TransformedMissing)
            /\ (route = "Brief" /\ result.ok =>
                  /\ result.val.primary.number = n
                  /\ "unknown" \in DOMAIN result.val.primary <=> PrimaryMissing
                  /\ (~PrimaryMissing /\ transformed_hexagram(reading) # None =>
                        /\ result.val.transformed # None
                        /\ "unknown" \in DOMAIN result.val.transformed[1]
                              <=> TransformedMissing))
            /\ (route = "Motd" /\ result.ok =>
                  /\ result.val.number = n
                  /\ "unknown" \in DOMAIN result.val <=> PrimaryMissing
                  /\ "transformed_unknown" \in DOMAIN result.val
                        <=> ~PrimaryMissing /\ TransformedMissing)
            /\ (route = "Full" /\ result.ok =>
                  /\ result.val.display.hexagram = n
                  /\ result.val.meanings = None <=> PrimaryMissing
                  /\ (~PrimaryMissing /\ transformed_hexagram(reading) # None =>
                        (result.val.meanings[1].transformed = None
                            <=> TransformedMissing)))
            /\ (route = "Numbers" =>
                  result = Ok([numbers |-> traditional_numbers(reading)]))

C16_Witness ==
    /\ Formatted
    /\ route = "Brief"
    /\ input.store.loaded
    /\ ~PrimaryMissing
    /\ TransformedMissing
    /\ result.ok
    /\ "unknown" \in DOMAIN result.val.transformed[1]

----------------------------------------------------------------------------
(* The glyph lookup on data files whose records may be missing, may share   *)
(* a glyph or may have no glyph                                             *)

\* the data file that lacks the records of `missing` and in which the record
\* `to` carries the glyph of the record `from` (no glyph when from = 0)
RelabelledData(missing, from, to) ==
    [i \in HexagramNumbers \ missing |->
        IF i = to /\ from # to
        THEN [HexagramRecord(i) EXCEPT
                 !.unicode = IF from = 0 THEN <<>>
                             ELSE HexagramRecord(from).unicode]
        ELSE HexagramRecord(i)]

LookupChars ==
    {Glyph(i) : i \in 0..65} \cup {Char.arrow, Char.x, Char.space}

LookupStores ==
    {[loaded |-> TRUE, missing |-> m, from |-> f, to |-> t] :
        m \in SUBSET (1..MaxMissing), f \in 0..MaxRelabel, t \in 1..MaxRelabel}
      \cup {[loaded |-> FALSE, missing |-> {}, from |-> 1, to |-> 1]}

StoreData(store) == RelabelledData(store.missing, store.from, store.to)

\* unicode_to_hexagram_number(unicode_char): the load, then the scan
UnicodeToHexagramNumber ==
    /\ pc = "start"
    /\ \E unicode_char \in LookupChars, store \in LookupStores :
        /\ input' = [unicode_char |-> unicode_char, store |-> store]
        /\ result' = unicode_to_hexagram_number(
                         IF store.loaded THEN Ok(StoreData(store))
                         ELSE LoadFailure,
                         unicode_char)
    /\ route' = "unicode_to_hexagram_number"
    /\ pc' = "looked up"
    /\ UNCHANGED <<coins, cast, transformed, again>>

NextLookup == UnicodeToHexagramNumber

SpecLookup == Init /\ [][NextLookup]_vars

----------------------------------------------------------------------------
(* C21 *)

LookedUpGlyph == route = "unicode_to_hexagram_number" /\ input.store.loaded

\* the identifiers whose record is present and has `unicode_char` as the
\* first char of its glyph field
MatchingRecords(data, unicode_char) ==
    {i \in 1..64 : /\ i \in DOMAIN data
                   /\ data[i].unicode # <<>>
                   /\ data[i].unicode[1] = unicode_char}

\* C21: unicode_to_hexagram_number returns the lowest identifier of 1..64
\* whose record has the character as its glyph, and none when no record has
\* it; what it returns is in 1..64; a missing record is passed over without
\* an error.
C21_GlyphLookup ==
    LookedUpGlyph =>
        LET data == StoreData(input.store)
            matching == MatchingRecords(data, input.unicode_char)
        IN  /\ result.ok
            /\ result.val = None <=> matching = {}
            /\ (matching # {} =>
                  /\ result.val[1] \in matching
                  /\ \A i \in matching : result.val[1] <= i)
            /\ (result.val # None => result.val[1] \in 1..64)

\* the glyph of record 2 is looked up in a file where record 1 is missing and
\* records 2 and 3 both carry that glyph
C21_Witness ==
    /\ LookedUpGlyph
    /\ input.unicode_char = Glyph(2)
    /\ input.store.missing = {1}
    /\ input.store.from = 2
    /\ input.store.to = 3
    /\ MatchingRecords(StoreData(input.store), input.unicode_char) = {2, 3}
    /\ result = Ok(Some(2))

----------------------------------------------------------------------------
(* C22 *)

\* the positions (1-based) that changing_line_positions lists
ChangingPositions(reading) ==
    LET positions == changing_line_positions(reading)
    IN  {positions[k] : k \in 1..Len(positions)}

\* the number v of 0..63 with bit p-1 flipped for every position p of P
FlipBits(v, P) ==
    SumOfPowers({i \in Positions : (bit(v, i) = 1) # (i + 1 \in P)})

\* C22: transformed_hexagram() of a reading is Some exactly when
\* has_changing_lines() is true; then the identifier of the transformed
\* reading minus 1 is the identifier of the reading minus 1 with bit p-1
\* flipped for each changing position p, and the two identifiers differ.
C22_TransformedIdentifier ==
    WasTransformed =>
        LET reading == result.val
            id == primary_hexagram(reading)
        IN  /\ transformed # None <=> has_changing_lines(reading)
            /\ has_changing_lines(reading) <=> ChangingPositions(reading) # {}
            /\ (has_changing_lines(reading) =>
                  /\ primary_hexagram(transformed[1]) - 1 =
                         FlipBits(id - 1, ChangingPositions(reading))
                  /\ primary_hexagram(transformed[1]) # id
                  /\ primary_hexagram(transformed[1]) \in 1..64)

C22_Witness ==
    /\ WasTransformed
    /\ transformed # None
    /\ changing_line_positions(result.val) = <<2, 3, 4, 5, 6>>
    /\ primary_hexagram(result.val) = 32
    /\ primary_hexagram(transformed[1]) = 34

====
